---- MODULE Spec2Model ----
(***************************************************************************)
(* OpenVAT three.js viewer: the VAT playback material (vertex stage frame  *)
(* selector, sampler, remapper), its shader-stage injection, and the host  *)
(* (VATViewer, multi-file and button-driven, + Scene) that loads assets    *)
(* and pushes playback state.                                              *)
(*                                                                         *)
(* Numbers are exact fixed point.  time is counted in ticks of 1/TimeDen   *)
(* seconds, Speed in steps of 1/SpeedDen (the speed slider's step), so     *)
(* time * Speed, frameTime and blend are numerators over D.  Texture       *)
(* samples are numerators over SDen; a mixed sample and a decoded position *)
(* are numerators over PD = SDen * D.                                      *)
(***************************************************************************)
EXTENDS Integers, Sequences, FiniteSets, TLC

VARIABLES
    \* ---- one material under evaluation (vertex stage) ----
    uni,        \* the material's uniforms
    smp,        \* the two position-texture fetches of the vertex: [cur, next]
    out,        \* what the last evaluation of the vertex stage produced
    \* ---- VATViewer (multi-file) React state ----
    isAnimated, currentFrame, speed,
    vatTexture, vatNormalTexture, vatParams,
    loading, error,
    uploadedFiles, classifiedFiles, fileValidation,
    shouldLoadModelFromMultiFile,
    \* ---- async calls in flight ----
    procs,      \* processMultiFileUpload and handleLoadModel calls: timer pending
                \* or awaiting a loader
    loads,      \* Scene.loadModel calls awaiting the GLTF loader
    \* ---- Scene ----
    scene,      \* the models added to the three.js scene
    modelRef,   \* modelRef.current: the id of a model, or 0
    clock,      \* clock.getElapsedTime(), in ticks
    nextId,     \* ids handed to uploads and models
    \* ---- VATViewer (button-driven) React state ----
    modelFile, positionTextureFile, normalTextureFile, remapInfoFile,
    shouldLoadModel,
    \* ---- shader compilation ----
    ShaderChunk,  \* THREE.ShaderChunk, the chunk table every material shares
    materials     \* the materials constructed, each with its program once compiled

shaderVars == <<uni, smp, out>>
controlVars == <<isAnimated, currentFrame, speed>>
assetVars == <<vatTexture, vatNormalTexture, vatParams>>
uploadVars == <<uploadedFiles, classifiedFiles, fileValidation>>
statusVars == <<loading, error>>
sceneVars == <<scene, modelRef>>
fileVars == <<modelFile, positionTextureFile, normalTextureFile, remapInfoFile>>
buttonVars == <<fileVars, shouldLoadModel>>
hostVars == <<controlVars, assetVars, uploadVars, statusVars,
              shouldLoadModelFromMultiFile, procs, loads, sceneVars, clock, nextId,
              buttonVars>>
compileVars == <<ShaderChunk, materials>>
vars == <<shaderVars, hostVars, compileVars>>

None == [some |-> FALSE]
Some(v) == [some |-> TRUE, v |-> v]
\* a ?? d
Nullish(a, d) == IF a.some THEN a.v ELSE d
NoOut == [drawn |-> FALSE]
\* the vertex stage ran for the mesh of model mid (0: the material on its own)
Drawn(mid, v) == [drawn |-> TRUE, mid |-> mid, v |-> v]

\* ------------------------------------------------------------------ bounds
TimeDen == 2
MaxTicks == 5
SDen == 2
MaxUninit == 1
UninitStep == 7
UVDen == 4

\* ------------------------------------------------------- program constants
SpeedDen == 10
DefaultSpeed == 24 * SpeedDen
DefaultFrameCount == 60

DefaultYResolution == 512
D == TimeDen * SpeedDen
PD == SDen * D

\* ------------------------------------------------------------ input sets
Ticks == 0..MaxTicks
\* speed slider: min 0.1, max 60.0, step 0.1; the default 24.0
SpeedChoices == {1, 15, DefaultSpeed, 60 * SpeedDen}
FrameCountChoices == {1, 2, 3, DefaultFrameCount}
FrameSelectChoices == {0, 1, 2}
\* pixel heights of position textures
YResolutionChoices == {64, DefaultYResolution}
\* an uninitialised float local holds whatever the register held
UninitFloats == {k * UninitStep : k \in 0..MaxUninit}

Vec3(a, b, c) == [x |-> a, y |-> b, z |-> c]
SampleChoices == {Vec3(0, 0, 0), Vec3(1, 1, 1), Vec3(2, 0, 1)}
BoundsChoices ==
    { [min |-> Vec3(-1, -1, -1), max |-> Vec3(1, 1, 1)],
      [min |-> Vec3(0, -2, 1),   max |-> Vec3(3, 1, 2)],
      \* no motion along the third source axis: Min[2] = Max[2]
      [min |-> Vec3(0, -2, 1),   max |-> Vec3(3, 1, 1)] }
\* The other inputs of one vertex: its position attribute (object units), its
\* uv1 attribute (numerators over UVDen), the two normal-texture fetches
\* (over SDen) and the normalMatrix of its mesh (columns c0, c1, c2).
AttributeChoices ==
    { [ position |-> Vec3(0, 0, 0), uv1 |-> [x |-> 0, y |-> 0],
        ncur |-> Vec3(2, 1, 0), nnext |-> Vec3(0, 2, 1),
        normalMatrix |-> [c0 |-> Vec3(1, 0, 0), c1 |-> Vec3(0, 1, 0), c2 |-> Vec3(0, 0, 1)] ],
      [ position |-> Vec3(1, -2, 3), uv1 |-> [x |-> 2, y |-> 1],
        ncur |-> Vec3(1, 1, 2), nnext |-> Vec3(2, 0, 0),
        normalMatrix |-> [c0 |-> Vec3(0, 2, 0), c1 |-> Vec3(-1, 0, 0), c2 |-> Vec3(0, 0, 1)] ] }
\* one vertex: the two position-texture fetches and its other inputs
VertexInput(c, n, e) ==
    [ cur |-> c, next |-> n, position |-> e.position, uv1 |-> e.uv1,
      ncur |-> e.ncur, nnext |-> e.nnext, normalMatrix |-> e.normalMatrix ]
VertexInputs ==
    { VertexInput(c, n, e) : c \in SampleChoices, n \in SampleChoices, e \in AttributeChoices }

\* ------------------------------------------------------- GLSL built-ins
\* floor(x) of a numerator over den, as an integer
Floor(x, den) == x \div den
\* fract(x) = x - floor(x)
Fract(x) == x - D * Floor(x, D)
\* mod(x, y) = x - y * floor(x / y), x and y numerators over D, y # 0
Fmod(x, y) == x - y * (x \div y)
\* mix(a, b, t) = a * (1 - t) + b * t; a, b over SDen, t over D, result over PD
Mix(a, b, t) == a * (D - t) + b * t
MixVec(a, b, t) == Vec3(Mix(a.x, b.x, t), Mix(a.y, b.y, t), Mix(a.z, b.z, t))

\* ---------------------------------------------------- the vertex stage
\* The result of an int or float operation GLSL leaves undefined.
UndefInts == {-1, 0}

\* AnimatedFrame with the next frame not wrapped: nextFrame = currentFrame + 1
AnimatedFrame_NoWrap(u) ==
    LET frameTime == Fmod(u.time * u.Speed, u.FrameCount * D)
        curFrame == Floor(frameTime, D)
    IN  [ frameTime    |-> frameTime,
          currentFrame |-> curFrame,
          nextFrame    |-> curFrame + 1,
          blend        |-> Fract(frameTime),
          divByZero    |-> FALSE,
          uninitRead   |-> FALSE ]

\* AnimatedFrame with the clock not wrapped: frameTime = time * Speed
AnimatedFrame_NoLoop(u) ==
    LET frameTime == u.time * u.Speed
        curFrame == Floor(frameTime, D)
    IN  [ frameTime    |-> frameTime,
          currentFrame |-> curFrame,
          nextFrame    |-> (curFrame + 1) % u.FrameCount,
          blend        |-> Fract(frameTime),
          divByZero    |-> FALSE,
          uninitRead   |-> FALSE ]

\* if (ToggleAnimated) { ... } with FrameCount >= 1
AnimatedFrame(u) ==
    LET frameTime == Fmod(u.time * u.Speed, u.FrameCount * D)
        curFrame == Floor(frameTime, D)
    IN  [ frameTime    |-> frameTime,
          currentFrame |-> curFrame,
          nextFrame    |-> (curFrame + 1) % u.FrameCount,
          blend        |-> Fract(frameTime),
          divByZero    |-> FALSE,
          uninitRead   |-> FALSE ]

\* the same branch with FrameCount <= 0: mod(x, 0.0) and n % 0 are undefined,
\* and so is % with a negative operand
AnimatedFrameUndefined(u) ==
    { [ frameTime    |-> ft,
        currentFrame |-> IF u.FrameCount = 0 THEN c ELSE Floor(ft, D),
        nextFrame    |-> n,
        blend        |-> Fract(ft),
        divByZero    |-> (u.FrameCount = 0),
        uninitRead   |-> FALSE ]
      : ft \in (IF u.FrameCount = 0 THEN UninitFloats
                ELSE {Fmod(u.time * u.Speed, u.FrameCount * D)}),
        c \in UndefInts, n \in UndefInts }

\* else { currentFrame = frameSelect; nextFrame = currentFrame; }
\* frameTime is declared and never assigned on this path; blend reads it.
ManualFrame(u, uninit) ==
    [ frameTime    |-> uninit,
      currentFrame |-> u.frameSelect,
      nextFrame    |-> u.frameSelect,
      blend        |-> Fract(uninit),
      divByZero    |-> FALSE,
      uninitRead   |-> TRUE ]

\* Every (frameTime, currentFrame, nextFrame, blend) the frame selector at the
\* top of the injected vertex code can produce for uniforms u.
FrameSelectorOutcomes(u) ==
    IF u.ToggleAnimated
    THEN IF u.FrameCount >= 1 THEN {AnimatedFrame(u)}
         ELSE AnimatedFrameUndefined(u)
    ELSE {ManualFrame(u, ft) : ft \in UninitFloats}

\* Denorm without the lower bound added
Denorm_NoOffset(lo, hi, s) == s * (hi - lo)

\* object_space_position: per-channel de-normalisation, then Blender Z-up to
\* three.js Y-up (y and z swapped, the new z negated).  s over PD, result over PD.
Denorm(lo, hi, s) == lo * PD + s * (hi - lo)
\* Remap without the Blender-to-three.js correction (no swap, no sign flip)
Remap_NoAxisFix(s, minValues, maxValues) ==
    [ x |-> Denorm(minValues.x, maxValues.x, s.x),
      y |-> Denorm(minValues.y, maxValues.y, s.y),
      z |-> Denorm(minValues.z, maxValues.z, s.z) ]

Remap(s, minValues, maxValues) ==
    [ x |-> Denorm(minValues.x, maxValues.x, s.x),
      z |-> -1 * Denorm(minValues.y, maxValues.y, s.y),
      y |-> Denorm(minValues.z, maxValues.z, s.z) ]

\* transformed with the base position replaced instead of displaced
Transformed_Overwrite(base, offset) == offset

\* transformed += object_space_position, where transformed is vec3(position)
\* right after begin_vertex.  base in object units, offset and result over PD.
Transformed(base, offset) ==
    Vec3(base.x * PD + offset.x, base.y * PD + offset.y, base.z * PD + offset.z)

\* VAT_normal = 2.0 * VAT_normal - 1.0, a sample over SDen
Unpack(s) == Vec3(2 * s.x - SDen, 2 * s.y - SDen, 2 * s.z - SDen)
\* vec3(VAT_normal.r, VAT_normal.b, -VAT_normal.g)
AxisCorrect(v) == Vec3(v.x, v.z, 0 - v.y)
Dot(a, b) == a.x * b.x + a.y * b.y + a.z * b.z
\* v * normalMatrix: GLSL treats v as a row vector
RowTimes(v, m) == Vec3(Dot(v, m.c0), Dot(v, m.c1), Dot(v, m.c2))

\* VatNormal with the axis correction left out on the next frame's sample
VatNormal_NextNotCorrected(s, blend) ==
    RowTimes(MixVec(AxisCorrect(Unpack(s.ncur)), Unpack(s.nnext), blend), s.normalMatrix)

\* The argument of normalize() in the assignment to v_vat_normal: both
\* samples unpacked, both axis-corrected, mixed, multiplied by normalMatrix.
\* Over PD.
VatNormal(s, blend) ==
    RowTimes(MixVec(AxisCorrect(Unpack(s.ncur)), AxisCorrect(Unpack(s.nnext)), blend),
             s.normalMatrix)

\* VatUvOffset with the rows counted from the top edge: uv1 + (0, 1 - f * frameStep)
VatUvOffset_FromTop(uv1, frame, yres) ==
    [ x |-> uv1.x * yres, y |-> uv1.y * yres + UVDen * yres - frame * UVDen ]

\* uv1 + vec2(0.0, float(frame) * frameStep) with frameStep = 1.0 / Y_resolution.
\* uv1 over UVDen, the result over UVDen * Y_resolution.
VatUvOffset(uv1, frame, yres) ==
    [ x |-> uv1.x * yres, y |-> uv1.y * yres + frame * UVDen ]

\* The fetches of one vertex at coordinates uv and uvNext: s holds what the
\* textures return at uv and, when it is another coordinate, at uvNext.
Fetches(s, uv, uvNext) ==
    IF uvNext = uv
    THEN [s EXCEPT !.next = s.cur, !.nnext = s.ncur]
    ELSE s

\* One evaluation of the injected vertex code for frame-selector outcome f.
VertexVatPosition(u, s0, f) ==
    LET VAT_UV_offset == VatUvOffset(s0.uv1, f.currentFrame, u.Y_resolution)
        VAT_UV_offset_next == VatUvOffset(s0.uv1, f.nextFrame, u.Y_resolution)
        s == Fetches(s0, VAT_UV_offset, VAT_UV_offset_next)
        VAT_position == MixVec(s.cur, s.next, f.blend)
        object_space_position == Remap(VAT_position, u.minValues, u.maxValues)
    IN  [ frameTime    |-> f.frameTime,
          currentFrame |-> f.currentFrame,
          nextFrame    |-> f.nextFrame,
          blend        |-> f.blend,
          divByZero    |-> f.divByZero,
          uninitRead   |-> f.uninitRead,
          VAT_UV_offset |-> VAT_UV_offset,
          VAT_UV_offset_next |-> VAT_UV_offset_next,
          VAT_position |-> VAT_position,
          object_space_position |-> object_space_position,
          transformed  |-> Transformed(s.position, object_space_position),
          VAT_normal   |-> VatNormal(s, f.blend) ]

\* this.uniforms of a newly constructed MeshStandardOpenVATMaterial
NewMaterial ==
    [ time |-> 0,
      vat_position_texture |-> None,
      vat_normal_texture |-> None,
      minValues |-> Vec3(-1, -1, -1),
      maxValues |-> Vec3(1, 1, 1),
      FrameCount |-> DefaultFrameCount,
      Y_resolution |-> DefaultYResolution,
      ToggleAnimated |-> TRUE,
      frameSelect |-> 0,
      Speed |-> DefaultSpeed ]

\* ======================================================================
\* The host: VATViewer (multi-file upload) and Scene
\* ======================================================================

\* ------------------------------------------------------------ more bounds
MaxClock == 1
MaxId == 3

\* ------------------------------------------------------------ uploaded files
\* The parsed content of a remap-info .json file.  Frames, Min, Max, Position
\* and the elements of Min and Max may each be missing.
NoRemapInfo ==
    [osRemap |-> FALSE, Frames |-> None, Min |-> None, Max |-> None, Position |-> None]
RemapInfo(frames, lo, hi, pos) ==
    [osRemap |-> TRUE, Frames |-> frames, Min |-> lo, Max |-> hi, Position |-> pos]

\* A file name is a sequence of pieces: a stem, endings such as "_vnrm", and
\* extensions with their dot.  The name "mesh_vnrm.exr" is
\* << "mesh", "_vnrm", ".exr" >>.
FileName(vnrm, ext) ==
    << "mesh" >> \o (IF vnrm THEN << "_vnrm" >> ELSE <<>>) \o << "." \o ext >>

\* A File: its name and what its loader will find in it.  tag names the
\* upload it belongs to; ok is whether its loader succeeds.
File(name, tag, ok, uv, uv1, height, json) ==
    [name |-> name, tag |-> tag, ok |-> ok, uv |-> uv, uv1 |-> uv1,
     height |-> height, json |-> json]
GlbFile(tag, ok, uv, uv1) ==
    File(FileName(FALSE, "glb"), tag, ok, uv, uv1, None, NoRemapInfo)
TextureFile(ext, vnrm, tag, ok, height) ==
    File(FileName(vnrm, ext), tag, ok, FALSE, FALSE, height, NoRemapInfo)
JsonFile(tag, ok, json) ==
    File(FileName(FALSE, "json"), tag, ok, FALSE, FALSE, None, json)

\* The file lists a user drops on the input.
UploadSets ==
    << \* 1: a complete asset, 3 frames, mesh with uv and uv1
       << GlbFile(1, TRUE, TRUE, TRUE), TextureFile("exr", FALSE, 1, TRUE, Some(4)),
          TextureFile("exr", TRUE, 1, TRUE, Some(4)),
          JsonFile(1, TRUE, RemapInfo(Some(3), None, None, None)) >>,
       \* 2: no normal texture, Frames missing, mesh with uv only
       << GlbFile(2, TRUE, TRUE, FALSE), TextureFile("exr", FALSE, 2, TRUE, Some(64)),
          JsonFile(2, TRUE, NoRemapInfo) >>,
       \* 3: Frames = 0, mesh with neither uv nor uv1
       << JsonFile(3, TRUE, RemapInfo(Some(0), None, None, None)),
          TextureFile("exr", FALSE, 3, TRUE, Some(4)), GlbFile(3, TRUE, FALSE, FALSE) >>,
       \* 4: a model the GLTF loader rejects, a texture that loads without an image
       << GlbFile(4, FALSE, FALSE, FALSE), TextureFile("exr", FALSE, 4, TRUE, None),
          JsonFile(4, TRUE, RemapInfo(Some(2), None, None, None)) >>,
       \* 5: a model (mesh with uv1 only) and a position texture, no remap info
       << GlbFile(5, TRUE, FALSE, TRUE), TextureFile("exr", FALSE, 5, TRUE, Some(4)) >> >>

\* 6: a complete asset whose normal texture the EXR loader rejects
FailingUploadSet ==
    << GlbFile(6, TRUE, TRUE, TRUE), TextureFile("exr", FALSE, 6, TRUE, Some(4)),
       TextureFile("exr", TRUE, 6, FALSE, None),
       JsonFile(6, TRUE, RemapInfo(Some(2), None, None, None)) >>
AllUploadSets == UploadSets \o << FailingUploadSet >>

\* files.find(pred): the first file satisfying pred, or undefined
Find(files, Pred(_)) ==
    LET hits == {i \in 1..Len(files) : Pred(files[i])}
    IN  IF hits = {} THEN None
        ELSE Some(files[CHOOSE i \in hits : \A j \in hits : i <= j])

\* String.prototype.toLowerCase, piece by piece
LowerCase(piece) ==
    CASE piece = "_VNRM" -> "_vnrm"
      [] piece = ".EXR"  -> ".exr"
      [] piece = ".PNG"  -> ".png"
      [] piece = ".GLB"  -> ".glb"
      [] piece = ".JSON" -> ".json"
      [] OTHER           -> piece
toLowerCase(name) == [i \in 1..Len(name) |-> LowerCase(name[i])]
\* String.prototype.endsWith for a suffix that is one piece
endsWith(name, suffix) == Len(name) > 0 /\ name[Len(name)] = suffix
\* name.replace(/\.(exr|png)$/i, '')
WithoutTextureExt(name) ==
    IF endsWith(toLowerCase(name), ".exr") \/ endsWith(toLowerCase(name), ".png")
    THEN SubSeq(name, 1, Len(name) - 1)
    ELSE name
\* name.split('.').pop()?.toLowerCase(): what follows the last dot, the whole
\* name when it has none
Extension(name) ==
    IF Len(name) > 0 /\ LowerCase(name[Len(name)]) \in {".exr", ".png", ".glb", ".json"}
    THEN << LowerCase(name[Len(name)]) >>
    ELSE toLowerCase(name)

IsGlb(f) == endsWith(toLowerCase(f.name), ".glb")
IsJson(f) == endsWith(toLowerCase(f.name), ".json")
IsTexture(f) ==
    endsWith(toLowerCase(f.name), ".exr") \/ endsWith(toLowerCase(f.name), ".png")
\* IsNormalTexture with the ending compared without regard to case
IsNormalTexture_AnyCase(f) ==
    IsTexture(f) /\ endsWith(toLowerCase(WithoutTextureExt(f.name)), "_vnrm")
IsNormalTexture(f) == IsTexture(f) /\ endsWith(WithoutTextureExt(f.name), "_vnrm")
IsPositionTexture(f) == IsTexture(f) /\ ~endsWith(WithoutTextureExt(f.name), "_vnrm")

classifyFiles(files) ==
    [ modelFile       |-> Find(files, IsGlb),
      positionTexture |-> Find(files, IsPositionTexture),
      normalTexture   |-> Find(files, IsNormalTexture),
      remapInfoFile   |-> Find(files, IsJson) ]

validateFiles(classified) ==
    LET missingFiles ==
            (IF classified.modelFile.some THEN <<>> ELSE <<"Model file (.glb)">>)
            \o (IF classified.positionTexture.some THEN <<>>
                ELSE <<"Position texture (.exr or .png)">>)
            \o (IF classified.remapInfoFile.some THEN <<>>
                ELSE <<"Remap info file (.json)">>)
        errors ==
            IF /\ classified.positionTexture.some /\ classified.normalTexture.some
               /\ Extension(classified.positionTexture.v.name)
                     = Extension(classified.normalTexture.v.name)
               /\ endsWith(WithoutTextureExt(classified.positionTexture.v.name), "_vnrm")
                     = endsWith(WithoutTextureExt(classified.normalTexture.v.name), "_vnrm")
            THEN <<"Both texture files have the same naming convention.">>
            ELSE <<>>
    IN  [ isValid      |-> (Len(missingFiles) = 0 /\ Len(errors) = 0),
          missingFiles |-> missingFiles,
          errors       |-> errors ]

\* osRemap?.Min?.[i] (i from 1)
Elem(arr, i) == IF arr.some THEN arr.v[i] ELSE None

\* yResolution taken from the position texture in the state, not the argument
YResolution_FromState(texture) ==
    IF vatTexture.some /\ vatTexture.v.height.some
    THEN vatTexture.v.height.v ELSE DefaultYResolution

\* let yResolution = 512.0; if (texture && texture.image) yResolution =
\* texture.image.height
YResolution(texture) ==
    IF texture.some /\ texture.v.height.some
    THEN texture.v.height.v ELSE DefaultYResolution

\* a || d on numbers: 0 counts as missing too
OrDefault(a, d) == IF a.some /\ a.v # 0 THEN a.v ELSE d

\* ParseRemapInfo with || in place of ??
ParseRemapInfo_OrDefaults(file, texture) ==
    LET osRemap == file.json
    IN  [ Y_resolution |-> YResolution(texture),
          FrameCount   |-> OrDefault(osRemap.Frames, DefaultFrameCount),
          Position     |-> IF osRemap.Position.some
                           THEN Some(Vec3(osRemap.Position.v[1], osRemap.Position.v[2],
                                          osRemap.Position.v[3]))
                           ELSE None,
          minValues    |-> Vec3(OrDefault(Elem(osRemap.Min, 1), -1),
                                OrDefault(Elem(osRemap.Min, 2), -1),
                                OrDefault(Elem(osRemap.Min, 3), -1)),
          maxValues    |-> Vec3(OrDefault(Elem(osRemap.Max, 1), 1),
                                OrDefault(Elem(osRemap.Max, 2), 1),
                                OrDefault(Elem(osRemap.Max, 3), 1)),
          tag          |-> file.tag ]

\* The VATParams loadVATRemapInfoFromFile passes to setVatParams.  tag is
\* not in the code: it records which upload the record was parsed from.
ParseRemapInfo(file, texture) ==
    LET osRemap == file.json
    IN  [ Y_resolution |-> YResolution(texture),
          FrameCount   |-> Nullish(osRemap.Frames, DefaultFrameCount),
          Position     |-> IF osRemap.Position.some
                           THEN Some(Vec3(osRemap.Position.v[1], osRemap.Position.v[2],
                                          osRemap.Position.v[3]))
                           ELSE None,
          minValues    |-> Vec3(Nullish(Elem(osRemap.Min, 1), -1),
                                Nullish(Elem(osRemap.Min, 2), -1),
                                Nullish(Elem(osRemap.Min, 3), -1)),
          maxValues    |-> Vec3(Nullish(Elem(osRemap.Max, 1), 1),
                                Nullish(Elem(osRemap.Max, 2), 1),
                                Nullish(Elem(osRemap.Max, 3), 1)),
          tag          |-> file.tag ]

\* The texture an EXRLoader resolves with for a file.
LoadedTexture(file) == [tag |-> file.tag, height |-> file.height]

\* ----------------------------------------------------------- shader text
\* Shader text is a sequence of tokens: a statement, or an #include line.
\* THREE.ShaderChunk.beginnormal_vertex as three.js ships it; its first
\* statement is the string onBeforeCompile looks for.
StockBeginNormalVertex ==
    << "vec3 objectNormal = vec3( normal )", ";", "objectTangent" >>
StockShaderChunk == [beginnormal_vertex |-> StockBeginNormalVertex]

\* No material has been constructed and nothing has been compiled.
CompileIdle ==
    /\ ShaderChunk = StockShaderChunk
    /\ materials = <<>>

\* The button-driven VATViewer right after it has mounted.
ButtonIdle ==
    /\ modelFile = None /\ positionTextureFile = None
    /\ normalTextureFile = None /\ remapInfoFile = None
    /\ shouldLoadModel = FALSE

\* The state of the host right after VATViewer and Scene have mounted.
HostIdle ==
    /\ isAnimated = TRUE /\ currentFrame = 0 /\ speed = DefaultSpeed
    /\ vatTexture = None /\ vatNormalTexture = None /\ vatParams = None
    /\ loading = FALSE /\ error = None
    /\ uploadedFiles = <<>> /\ classifiedFiles = None /\ fileValidation = None
    /\ shouldLoadModelFromMultiFile = FALSE
    /\ procs = {} /\ loads = {}
    /\ scene = {} /\ modelRef = 0
    /\ clock = 0 /\ nextId = 1
    /\ ButtonIdle

\* ------------------------------------------------- SpecShader: one material
InitShader ==
    /\ \E t \in Ticks, sp \in SpeedChoices, fc \in FrameCountChoices,
          a \in BOOLEAN, fs \in FrameSelectChoices, b \in BoundsChoices,
          yres \in YResolutionChoices :
          uni = [NewMaterial EXCEPT !.time = t, !.Speed = sp, !.FrameCount = fc,
                                    !.Y_resolution = yres,
                                    !.ToggleAnimated = a, !.frameSelect = fs,
                                    !.minValues = b.min, !.maxValues = b.max]
    /\ smp \in VertexInputs
    /\ out = NoOut
    /\ HostIdle
    /\ CompileIdle

\* the renderer draws the mesh: the vertex stage runs with the current uniforms
Draw ==
    /\ \E f \in FrameSelectorOutcomes(uni) :
          out' = Drawn(0, VertexVatPosition(uni, smp, f))
    /\ UNCHANGED <<uni, smp, hostVars, compileVars>>

\* useFrame: the clock advances and time is written to the material
Tick ==
    /\ uni.time < MaxTicks
    /\ uni' = [uni EXCEPT !.time = @ + 1]
    /\ out' = NoOut
    /\ UNCHANGED <<smp, hostVars, compileVars>>

\* the host's effect writes the three playback uniforms after one control changed
PushPlayback ==
    /\ \E a \in BOOLEAN, fs \in FrameSelectChoices, sp \in SpeedChoices :
          /\ Cardinality({i \in 1..3 :
                 <<a, fs, sp>>[i] # <<uni.ToggleAnimated, uni.frameSelect, uni.Speed>>[i]}) = 1
          /\ uni' = [uni EXCEPT !.ToggleAnimated = a, !.frameSelect = fs, !.Speed = sp]
    /\ out' = NoOut
    /\ UNCHANGED <<smp, hostVars, compileVars>>

NextShader == Draw \/ Tick \/ PushPlayback

SpecShader == InitShader /\ [][NextShader]_vars

\* ------------------------------------------------ claims on the vertex stage
Evaluated == out.drawn
AnimatedEval ==
    Evaluated /\ uni.ToggleAnimated /\ uni.FrameCount >= 1 /\ uni.Speed > 0 /\ uni.time >= 0

\* C1: in animated mode, for time >= 0, Speed > 0 and FrameCount >= 1, the
\* frame selector yields currentFrame and nextFrame in [0, FrameCount-1] and
\* blend in [0, 1), with blend = frameTime - currentFrame where
\* frameTime = (time * Speed) mod FrameCount.
C1_AnimatedFrameInRange ==
    AnimatedEval =>
        /\ out.v.currentFrame \in 0..(uni.FrameCount - 1)
        /\ out.v.nextFrame \in 0..(uni.FrameCount - 1)
        /\ out.v.blend \in 0..(D - 1)
        /\ out.v.frameTime = (uni.time * uni.Speed) % (uni.FrameCount * D)
        /\ out.v.blend = out.v.frameTime - out.v.currentFrame * D

\* C1 witness: an animated evaluation past the first loop, between two frames
C1_Witness ==
    /\ AnimatedEval
    /\ uni.time * uni.Speed > uni.FrameCount * D
    /\ out.v.blend > 0
    /\ out.v.currentFrame = uni.FrameCount - 1
    /\ uni.FrameCount > 1

\* C2 as stated: nextFrame = (currentFrame + 1) mod FrameCount, and whenever
\* time * Speed is an exact multiple of FrameCount the result is
\* currentFrame = 0, nextFrame = 1, blend = 0.
C2_LoopPointNextIsOne ==
    AnimatedEval =>
        /\ out.v.nextFrame = (out.v.currentFrame + 1) % uni.FrameCount
        /\ (uni.time * uni.Speed) % (uni.FrameCount * D) = 0 =>
              (out.v.currentFrame = 0 /\ out.v.nextFrame = 1 /\ out.v.blend = 0)

\* C2 amended: nextFrame = (currentFrame + 1) mod FrameCount (the last frame
\* blends toward frame 0), and whenever time * Speed is an exact multiple of
\* FrameCount the result is currentFrame = 0, blend = 0 and nextFrame = 1 when
\* FrameCount >= 2, nextFrame = 0 when FrameCount = 1.
C2_LoopPoint ==
    AnimatedEval =>
        /\ out.v.nextFrame = (out.v.currentFrame + 1) % uni.FrameCount
        /\ out.v.currentFrame = uni.FrameCount - 1 => out.v.nextFrame = 0
        /\ (uni.time * uni.Speed) % (uni.FrameCount * D) = 0 =>
              /\ out.v.currentFrame = 0
              /\ out.v.blend = 0
              /\ out.v.nextFrame = IF uni.FrameCount >= 2 THEN 1 ELSE 0

\* C2 witness: FrameCount = 60, Speed = 24, time = 2.5 s, the exact loop point
C2_Witness ==
    /\ AnimatedEval
    /\ uni.FrameCount = 60 /\ uni.Speed = 24 * SpeedDen /\ uni.time * 2 = 5 * TimeDen
    /\ out.v.currentFrame = 0 /\ out.v.nextFrame = 1 /\ out.v.blend = 0

\* C3: in manual mode every evaluation yields blend = 0 and
\* nextFrame = currentFrame, whatever time and Speed are.
C3_ManualNoBlend ==
    (Evaluated /\ ~uni.ToggleAnimated) =>
        (out.v.blend = 0 /\ out.v.nextFrame = out.v.currentFrame)

\* C10: the decoded offset is right = min[0] + s[0]*(max[0]-min[0]),
\* up = min[2] + s[2]*(max[2]-min[2]), depth = -(min[1] + s[1]*(max[1]-min[1]));
\* s = (0.5, 0.5, 0.5) with min = (-1,-1,-1), max = (1,1,1) decodes to (0,0,0).
C10_RemapAxes ==
    Evaluated =>
        LET s  == out.v.VAT_position
            lo == uni.minValues
            hi == uni.maxValues
            p  == out.v.object_space_position
        IN  /\ p.x = lo.x * PD + s.x * (hi.x - lo.x)
            /\ p.y = lo.z * PD + s.z * (hi.z - lo.z)
            /\ p.z = 0 - (lo.y * PD + s.y * (hi.y - lo.y))
            /\ ( /\ 2 * s.x = PD /\ 2 * s.y = PD /\ 2 * s.z = PD
                 /\ lo = Vec3(-1, -1, -1) /\ hi = Vec3(1, 1, 1) )
               => p = Vec3(0, 0, 0)

\* C10 witness: the midpoint sample decoded under the unit bounds
C10_Witness ==
    /\ Evaluated
    /\ out.v.VAT_position = Vec3(PD \div 2, PD \div 2, PD \div 2)
    /\ uni.minValues = Vec3(-1, -1, -1) /\ uni.maxValues = Vec3(1, 1, 1)
    /\ out.v.object_space_position = Vec3(0, 0, 0)

\* C11: after the injected code, transformed equals its value right after
\* begin_vertex (the vertex's position) plus the decoded object-space offset.
C11_PositionAdded ==
    Evaluated =>
        /\ out.v.transformed.x = smp.position.x * PD + out.v.object_space_position.x
        /\ out.v.transformed.y = smp.position.y * PD + out.v.object_space_position.y
        /\ out.v.transformed.z = smp.position.z * PD + out.v.object_space_position.z

\* C11 witness: a vertex off the origin displaced by a non-zero offset
C11_Witness ==
    /\ Evaluated
    /\ smp.position # Vec3(0, 0, 0)
    /\ out.v.object_space_position # Vec3(0, 0, 0)
    /\ out.v.transformed # out.v.object_space_position

\* C12: the vector the code normalizes equals the one the order unpack ->
\* interpolate -> axis-correct -> normal-matrix transform produces, for every
\* pair of normal samples and every blend.
C12_NormalOrder ==
    Evaluated =>
        LET sampleNext == IF out.v.VAT_UV_offset_next = out.v.VAT_UV_offset
                          THEN smp.ncur ELSE smp.nnext
        IN  out.v.VAT_normal =
                RowTimes(AxisCorrect(MixVec(Unpack(smp.ncur), Unpack(sampleNext), out.v.blend)),
                         smp.normalMatrix)

\* C12 witness: two different normal samples blended between frames under a
\* normalMatrix that is not the identity
C12_Witness ==
    /\ Evaluated
    /\ out.v.blend > 0
    /\ smp.ncur # smp.nnext
    /\ out.v.nextFrame # out.v.currentFrame
    /\ smp.normalMatrix.c0 # Vec3(1, 0, 0)
    /\ out.v.VAT_normal # Vec3(0, 0, 0)

C17_Periodic ==
    AnimatedEval =>
        \A k \in Ticks :
            ((k - uni.time) * uni.Speed = uni.FrameCount * D) =>
                LET later == AnimatedFrame([uni EXCEPT !.time = k])
                IN  /\ later.currentFrame = out.v.currentFrame
                    /\ later.blend = out.v.blend

\* C17 witness: an evaluation between two frames whose time plus one period
\* is again a time of the clock
C17_Witness ==
    /\ AnimatedEval
    /\ out.v.blend > 0
    /\ \E k \in Ticks : (k - uni.time) * uni.Speed = uni.FrameCount * D

\* The inverse affine map on one axis returns s: s is the one sample s2 of
\* [0, 1] with s2 * (hi - lo) = d - lo, d the de-normalized value.
RoundTrips(lo, hi, d, s) ==
    \A s2 \in 0..PD : (s2 * (hi - lo) = d - lo * PD) <=> (s2 = s)

\* C18 as stated: for every sample in [0,1]^3 and every bounds the parameter
\* store accepts, the inverse affine map applied to the de-normalized value
\* returns the sample on every axis.
C18_RoundTripAllBounds ==
    Evaluated =>
        LET s  == out.v.VAT_position
            p  == out.v.object_space_position
            lo == uni.minValues
            hi == uni.maxValues
        IN  /\ RoundTrips(lo.x, hi.x, p.x, s.x)
            /\ RoundTrips(lo.y, hi.y, 0 - p.z, s.y)
            /\ RoundTrips(lo.z, hi.z, p.y, s.z)

\* C18 amended: the round trip holds on every axis whose bounds differ
\* (max # min); on an axis with max = min every sample decodes to min.
C18_RoundTrip ==
    Evaluated =>
        LET s  == out.v.VAT_position
            p  == out.v.object_space_position
            lo == uni.minValues
            hi == uni.maxValues
        IN  /\ IF hi.x # lo.x THEN RoundTrips(lo.x, hi.x, p.x, s.x) ELSE p.x = lo.x * PD
            /\ IF hi.y # lo.y THEN RoundTrips(lo.y, hi.y, 0 - p.z, s.y) ELSE 0 - p.z = lo.y * PD
            /\ IF hi.z # lo.z THEN RoundTrips(lo.z, hi.z, p.y, s.z) ELSE p.y = lo.z * PD

\* C18 witness: a blended sample decoded under bounds that are not the unit
\* bounds and differ on every axis
C18_Witness ==
    /\ Evaluated
    /\ uni.minValues = Vec3(0, -2, 1) /\ uni.maxValues = Vec3(3, 1, 2)
    /\ out.v.blend > 0
    /\ out.v.VAT_position.x > 0 /\ out.v.VAT_position.z > 0
    /\ out.v.VAT_position.x # out.v.VAT_position.z

\* two frame-selector results agree on (currentFrame, nextFrame, blend)
SameFrame(f, g) ==
    /\ f.currentFrame = g.currentFrame
    /\ f.nextFrame = g.nextFrame
    /\ f.blend = g.blend

\* C19: exactly one input determines the active frame.  With ToggleAnimated
\* false, evaluations that agree on frameSelect and FrameCount produce the
\* same (currentFrame, nextFrame, blend) whatever their time and Speed; with
\* ToggleAnimated true, evaluations that agree on time, Speed and FrameCount
\* produce the same result whatever their frameSelect.
C19_OneInputDetermines ==
    (Evaluated /\ uni.FrameCount >= 1) =>
        IF uni.ToggleAnimated
        THEN \A fs \in FrameSelectChoices :
                \A g \in FrameSelectorOutcomes([uni EXCEPT !.frameSelect = fs]) :
                    SameFrame(g, out.v)
        ELSE \A t \in Ticks, sp \in SpeedChoices :
                \A g \in FrameSelectorOutcomes([uni EXCEPT !.time = t, !.Speed = sp]) :
                    SameFrame(g, out.v)

\* ======================================================================
\* Spec: VATViewer (multi-file upload) driving Scene
\* ======================================================================
HostFrameChoices == {0, DefaultFrameCount - 1}
\* positions the user drags the speed slider towards, in 1/SpeedDen
HostSpeedChoices == {0 - SpeedDen, 0, DefaultSpeed}
HostSample ==
    VertexInput(Vec3(0, 0, 0), Vec3(2, 0, 1),
                CHOOSE e \in AttributeChoices : e.position # Vec3(0, 0, 0))

Init ==
    /\ uni = NewMaterial
    /\ smp = HostSample
    /\ out = NoOut
    /\ HostIdle
    /\ CompileIdle

\* No draw result outlives the frame it was produced in.
NoDraw ==
    out' = NoOut /\ uni' = NewMaterial /\ smp' = smp /\ UNCHANGED <<compileVars, buttonVars>>

\* The two effects that depend on the load trigger have work to do; React
\* flushes them before it handles the next event.
EffectsPending ==
    /\ shouldLoadModelFromMultiFile
    /\ classifiedFiles.some /\ classifiedFiles.v.modelFile.some
    /\ vatTexture.some /\ vatParams.some

\* ---------------------------------------------------------------- controls
\* Scene's effect on [isAnimated, currentFrame, speed]: written into the
\* materials of modelRef.current, if there is one
PushUniforms(a, f, s) ==
    IF modelRef = 0 THEN scene
    ELSE { IF m.id = modelRef
           THEN [m EXCEPT !.material.ToggleAnimated = a,
                          !.material.frameSelect = f,
                          !.material.Speed = s]
           ELSE m : m \in scene }

\* the Animated checkbox
SetIsAnimated ==
    /\ ~EffectsPending
    /\ isAnimated' = ~isAnimated
    /\ scene' = PushUniforms(~isAnimated, currentFrame, speed)
    /\ NoDraw
    /\ UNCHANGED <<currentFrame, speed, assetVars, uploadVars, statusVars,
                   shouldLoadModelFromMultiFile, procs, loads, modelRef, clock, nextId>>

\* max of the frame slider
FrameSliderMax ==
    IF vatParams.some /\ vatParams.v.FrameCount # 0
    THEN vatParams.v.FrameCount - 1 ELSE DefaultFrameCount - 1

\* the frame slider, shown only when not animated
SetCurrentFrame ==
    /\ ~EffectsPending
    /\ ~isAnimated
    /\ \E f \in HostFrameChoices :
          /\ 0 <= f /\ f <= FrameSliderMax
          /\ f # currentFrame
          /\ currentFrame' = f
          /\ scene' = PushUniforms(isAnimated, f, speed)
    /\ NoDraw
    /\ UNCHANGED <<isAnimated, speed, assetVars, uploadVars, statusVars,
                   shouldLoadModelFromMultiFile, procs, loads, modelRef, clock, nextId>>

\* the value of the speed slider without its min and max
SpeedSliderValue_NoLimits(r) == r

\* e.target.value of <input type="range" min={0.1} max={60.0} step={0.1}>
\* dragged towards r: the input keeps its value within [min, max]
SpeedSliderValue(r) ==
    IF r < 1 THEN 1 ELSE IF r > 60 * SpeedDen THEN 60 * SpeedDen ELSE r

\* the speed slider (0.1 to 60.0), shown only when animated
SetSpeed ==
    /\ ~EffectsPending
    /\ isAnimated
    /\ \E s \in {SpeedSliderValue(r) : r \in HostSpeedChoices} :
          /\ s # speed
          /\ speed' = s
          /\ scene' = PushUniforms(isAnimated, currentFrame, s)
    /\ NoDraw
    /\ UNCHANGED <<isAnimated, currentFrame, assetVars, uploadVars, statusVars,
                   shouldLoadModelFromMultiFile, procs, loads, modelRef, clock, nextId>>

\* ------------------------------------------------------------------ upload
\* handleMultiFileUpload(files) for one of the file lists in choices, while an
\* id below limit is left; isProcessingFiles is set and reset within it
Upload(choices, limit) ==
    /\ ~EffectsPending
    /\ nextId < limit
    /\ \E files \in choices :
          LET classified == classifyFiles(files)
              validation == validateFiles(classified)
          IN  /\ uploadedFiles' = files
              /\ classifiedFiles' = Some(classified)
              /\ fileValidation' = Some(validation)
              /\ procs' = IF validation.isValid
                          THEN procs \cup {[id |-> nextId, classified |-> classified,
                                            pc |-> "timer", texture |-> None]}
                          ELSE procs
    /\ nextId' = nextId + 1
    /\ NoDraw
    /\ UNCHANGED <<controlVars, assetVars, statusVars, shouldLoadModelFromMultiFile,
                   loads, sceneVars, clock>>

HandleMultiFileUpload ==
    Upload({UploadSets[k] : k \in 1..Len(UploadSets)}, MaxId)

\* the Clear Files button, shown while files are selected
clearUploadedFiles ==
    /\ ~EffectsPending
    /\ Len(uploadedFiles) > 0
    /\ uploadedFiles' = <<>>
    /\ classifiedFiles' = None
    /\ fileValidation' = None
    /\ shouldLoadModelFromMultiFile' = FALSE
    /\ NoDraw
    /\ UNCHANGED <<controlVars, assetVars, statusVars, procs, loads, sceneVars,
                   clock, nextId>>

\* ------------------------------------------------- processMultiFileUpload
StepTo(p, pc, texture) == (procs \ {p}) \cup {[p EXCEPT !.pc = pc, !.texture = texture]}

\* the catch and finally blocks
ProcessFailed(p) ==
    /\ error' = Some("Failed to process files automatically")
    /\ loading' = FALSE
    /\ procs' = procs \ {p}

\* the 100 ms timer fires: processMultiFileUpload runs up to its first await
ProcessStart ==
    /\ ~EffectsPending
    /\ \E p \in procs :
          /\ p.pc = "timer"
          /\ IF /\ p.classified.modelFile.some /\ p.classified.positionTexture.some
                /\ p.classified.remapInfoFile.some
             THEN /\ loading' = TRUE
                  /\ error' = None
                  /\ procs' = StepTo(p, "position", None)
             ELSE /\ procs' = procs \ {p}
                  /\ UNCHANGED statusVars
    /\ NoDraw
    /\ UNCHANGED <<controlVars, assetVars, uploadVars, shouldLoadModelFromMultiFile,
                   loads, sceneVars, clock, nextId>>

\* loadVATTextureFromFile settles
PositionTextureLoaded ==
    /\ ~EffectsPending
    /\ \E p \in procs :
          /\ p.pc = "position"
          /\ LET file == p.classified.positionTexture.v
                 texture == Some(LoadedTexture(file))
             IN  IF file.ok
                 THEN /\ vatTexture' = texture
                      /\ procs' = StepTo(p, IF p.classified.normalTexture.some
                                            THEN "normal" ELSE "remap", texture)
                      /\ UNCHANGED statusVars
                 ELSE /\ ProcessFailed(p)
                      /\ UNCHANGED vatTexture
    /\ NoDraw
    /\ UNCHANGED <<controlVars, vatNormalTexture, vatParams, uploadVars,
                   shouldLoadModelFromMultiFile, loads, sceneVars, clock, nextId>>

\* loadVATNormalTextureFromFile settles
NormalTextureLoaded ==
    /\ ~EffectsPending
    /\ \E p \in procs :
          /\ p.pc = "normal"
          /\ LET file == p.classified.normalTexture.v
             IN  IF file.ok
                 THEN /\ vatNormalTexture' = Some(LoadedTexture(file))
                      /\ procs' = StepTo(p, "remap", p.texture)
                      /\ UNCHANGED statusVars
                 ELSE /\ ProcessFailed(p)
                      /\ UNCHANGED vatNormalTexture
    /\ NoDraw
    /\ UNCHANGED <<controlVars, vatTexture, vatParams, uploadVars,
                   shouldLoadModelFromMultiFile, loads, sceneVars, clock, nextId>>

\* loadVATRemapInfoFromFile settles; on success the trigger is set
RemapInfoLoaded ==
    /\ ~EffectsPending
    /\ \E p \in procs :
          /\ p.pc = "remap"
          /\ LET file == p.classified.remapInfoFile.v
             IN  IF file.ok
                 THEN /\ vatParams' = Some(ParseRemapInfo(file, p.texture))
                      /\ shouldLoadModelFromMultiFile' = TRUE
                      /\ loading' = FALSE
                      /\ procs' = procs \ {p}
                      /\ UNCHANGED error
                 ELSE /\ ProcessFailed(p)
                      /\ UNCHANGED <<vatParams, shouldLoadModelFromMultiFile>>
    /\ NoDraw
    /\ UNCHANGED <<controlVars, vatTexture, vatNormalTexture, uploadVars,
                   loads, sceneVars, clock, nextId>>

\* -------------------------------------------------------------------- Scene
\* A vertex attribute: data names the numbers it holds.
Attribute(data) == Some([data |-> data])

\* ensureUVCoordinates with uv1 looked at before uv
ensureUVCoordinates_Uv1First(geometry) ==
    LET g == IF ~geometry.uv1.some
             THEN IF geometry.uv.some
                  THEN [geometry EXCEPT !.uv1 = geometry.uv]
                  ELSE [geometry EXCEPT !.uv1 = Attribute("position.zx")]
             ELSE geometry
    IN  IF ~g.uv.some
        THEN [g EXCEPT !.uv = Attribute("position.xy")]
        ELSE g

\* ensureUVCoordinates(geometry)
ensureUVCoordinates(geometry) ==
    LET g == IF ~geometry.uv.some
             THEN [geometry EXCEPT !.uv = Attribute("position.xy")]
             ELSE geometry
    IN  IF ~g.uv1.some
        THEN IF g.uv.some
             THEN [g EXCEPT !.uv1 = g.uv]
             ELSE [g EXCEPT !.uv1 = Attribute("position.zx")]
        ELSE g

\* the geometry GLTFLoader builds for the mesh of a .glb file
GltfGeometry(file) ==
    [ uv  |-> IF file.uv THEN Attribute("TEXCOORD_0") ELSE None,
      uv1 |-> IF file.uv1 THEN Attribute("TEXCOORD_1") ELSE None ]

\* new THREE.BoxGeometry(2, 2, 2)
BoxGeometry == [uv |-> Attribute("box.uv"), uv1 |-> None]

\* the uniforms loadModel and addPlaceholderCube write into a new material,
\* from the props of the render that called loadModel
ConfigureMaterial(props) ==
    LET m1 == IF props.vatTexture.some
              THEN [NewMaterial EXCEPT !.vat_position_texture = props.vatTexture]
              ELSE NewMaterial
        m2 == IF props.vatNormalTexture.some
              THEN [m1 EXCEPT !.vat_normal_texture = props.vatNormalTexture]
              ELSE m1
    IN  IF props.vatParams.some
        THEN [m2 EXCEPT !.minValues = props.vatParams.v.minValues,
                        !.maxValues = props.vatParams.v.maxValues,
                        !.FrameCount = props.vatParams.v.FrameCount,
                        !.Y_resolution = props.vatParams.v.Y_resolution]
        ELSE m2

\* the object added to the scene: source is the geometry before
\* ensureUVCoordinates, props the props of the render whose loadModel built it
Model(id, kind, source, props) ==
    [ id |-> id, kind |-> kind, source |-> source,
      geometry |-> ensureUVCoordinates(source),
      material |-> ConfigureMaterial(props),
      props |-> props ]

\* The commit in which the trigger is set.  Scene's effect calls loadModel,
\* which removes and disposes modelRef.current and awaits the GLTF loader;
\* VATViewer's effect resets the trigger and calls clearUploadedFiles.
LoadTriggerEffects ==
    /\ EffectsPending
    /\ loads' = loads \cup
          {[ id |-> nextId,
             modelFile |-> classifiedFiles.v.modelFile.v,
             vatTexture |-> vatTexture,
             vatNormalTexture |-> vatNormalTexture,
             vatParams |-> vatParams ]}
    /\ nextId' = nextId + 1
    /\ scene' = {m \in scene : m.id # modelRef}
    /\ modelRef' = 0
    /\ shouldLoadModelFromMultiFile' = FALSE
    /\ uploadedFiles' = <<>>
    /\ classifiedFiles' = None
    /\ fileValidation' = None
    /\ NoDraw
    /\ UNCHANGED <<controlVars, assetVars, statusVars, procs, clock>>

\* the GLTF loader settles: the model, or the placeholder cube of the catch
\* block, gets a new VAT material and becomes modelRef.current
GltfSettled ==
    /\ ~EffectsPending
    /\ \E l \in loads :
          LET loaded == IF l.modelFile.ok
                        THEN Model(l.id, "gltf", GltfGeometry(l.modelFile), l)
                        ELSE Model(l.id, "cube", BoxGeometry, l)
          IN  /\ scene' = scene \cup {loaded}
              /\ modelRef' = l.id
              /\ loads' = loads \ {l}
    /\ NoDraw
    /\ UNCHANGED <<controlVars, assetVars, uploadVars, statusVars,
                   shouldLoadModelFromMultiFile, procs, clock, nextId>>

\* useFrame writes the clock into every material of the scene, then the
\* renderer draws; the vertex stage of one of the meshes is observed
RenderFrame ==
    /\ ~EffectsPending
    /\ clock < MaxClock
    /\ clock' = clock + 1
    /\ scene' = {[m EXCEPT !.material.time = clock + 1] : m \in scene}
    /\ IF scene = {}
       THEN NoDraw
       ELSE /\ \E m \in scene' : \E f \in FrameSelectorOutcomes(m.material) :
                  /\ uni' = m.material
                  /\ out' = Drawn(m.id, VertexVatPosition(m.material, smp, f))
            /\ smp' = smp
            /\ UNCHANGED <<compileVars, buttonVars>>
    /\ UNCHANGED <<controlVars, assetVars, uploadVars, statusVars,
                   shouldLoadModelFromMultiFile, procs, loads, modelRef, nextId>>

Next ==
    \/ SetIsAnimated \/ SetCurrentFrame \/ SetSpeed
    \/ HandleMultiFileUpload \/ clearUploadedFiles
    \/ ProcessStart \/ PositionTextureLoaded \/ NormalTextureLoaded \/ RemapInfoLoaded
    \/ LoadTriggerEffects \/ GltfSettled
    \/ RenderFrame

Spec == Init /\ [][Next]_vars

\* ----------------------------------------------------- claims on the host
\* the vertex stage of the current model (modelRef.current) was drawn
CurrentModelDrawn == out.drawn /\ modelRef # 0 /\ out.mid = modelRef

\* C4: after any sequence of frame-slider changes and asset loads, the frame
\* used in manual mode lies in [0, FrameCount-1] of the currently loaded asset.
C4_ManualFrameClamped ==
    (CurrentModelDrawn /\ ~uni.ToggleAnimated /\ uni.FrameCount >= 1) =>
        out.v.currentFrame \in 0..(uni.FrameCount - 1)

\* C5: after a model has been loaded, at every displayed frame the material's
\* ToggleAnimated, frameSelect and Speed equal the host's isAnimated,
\* currentFrame and speed.
C5_UniformsMirrorHost ==
    CurrentModelDrawn =>
        /\ uni.ToggleAnimated = isAnimated
        /\ uni.frameSelect = currentFrame
        /\ uni.Speed = speed

\* C6: a frame count <= 0 is refused: no material is driven with it, an error
\* is reported and no modulo or division by zero is evaluated.
C6_ZeroFrameCountRefused ==
    /\ \A m \in scene : m.material.FrameCount >= 1
    /\ (vatParams.some /\ vatParams.v.FrameCount <= 0) => error.some
    /\ out.drawn => ~out.v.divByZero

\* C9: a loaded mesh that lacks uv1 gets no VAT material and its uv1 is never
\* synthesized: every loaded mesh in the scene brought its own uv1.
C9_MissingUv1Rejected ==
    \A m \in scene :
        m.kind = "gltf" =>
            /\ m.source.uv1.some
            /\ m.geometry.uv1 = m.source.uv1

\* the position texture file of the upload a VATParams record was parsed from
PositionFileOf(params) == Find(UploadSets[params.tag], IsPositionTexture).v

\* C15: the Y_resolution stored in VATParams equals the pixel height of the
\* position texture loaded in the same load operation when that texture has
\* an image, and 512 otherwise.
C15_YResolutionFromTexture ==
    vatParams.some =>
        vatParams.v.Y_resolution =
            IF PositionFileOf(vatParams.v).height.some
            THEN PositionFileOf(vatParams.v).height.v
            ELSE 512

\* C15 witness: two uploads in flight; the VATParams come from one, the
\* position texture in the state from the other, and their heights differ
C15_Witness ==
    /\ vatParams.some /\ vatTexture.some
    /\ vatTexture.v.tag # vatParams.v.tag
    /\ vatTexture.v.height # Some(vatParams.v.Y_resolution)
    /\ PositionFileOf(vatParams.v).height = Some(vatParams.v.Y_resolution)

\* C16: after any sequence of control operations the speed the host holds and
\* the Speed of every material are strictly positive: 0 or a negative speed
\* never reaches the material.
C16_SpeedPositive ==
    /\ speed > 0
    /\ \A m \in scene : m.material.Speed > 0
    /\ out.drawn => uni.Speed > 0

\* C16 witness: the slider dragged to its lower end, the value pushed into the
\* material of the current model and drawn
C16_Witness ==
    /\ speed = 1
    /\ CurrentModelDrawn
    /\ uni.Speed = 1

\* a file list without a model, a position texture or a remap-info file
LacksRequired(files) ==
    \/ \A i \in 1..Len(files) : files[i].name # << "mesh", ".glb" >>
    \/ \A i \in 1..Len(files) : files[i].name \notin {<< "mesh", ".exr" >>, << "mesh", ".png" >>}
    \/ \A i \in 1..Len(files) : files[i].name # << "mesh", ".json" >>

\* C20: an upload set that lacks a required file is reported invalid with the
\* missing item listed, no texture or parameter state comes from it and no
\* model load is started for it; a set that lacks only the normal texture is
\* valid.
C20_InvalidSetInert ==
    /\ Len(uploadedFiles) > 0 =>
          /\ fileValidation.some
          /\ fileValidation.v.isValid = ~LacksRequired(uploadedFiles)
          /\ LacksRequired(uploadedFiles) => Len(fileValidation.v.missingFiles) > 0
    /\ \A k \in 1..Len(UploadSets) :
          LacksRequired(UploadSets[k]) =>
              /\ vatTexture.some => vatTexture.v.tag # k
              /\ vatNormalTexture.some => vatNormalTexture.v.tag # k
              /\ vatParams.some => vatParams.v.tag # k
              /\ \A p \in procs : p.classified.modelFile.v.tag # k
              /\ \A l \in loads : l.modelFile.tag # k

\* ======================================================================
\* SpecUpload: uploads, their processing and the model loads they start, with
\* the playback controls left alone and no frame observed
\* ======================================================================
MaxUploadId == 4

UploadAny == Upload({AllUploadSets[k] : k \in 1..Len(AllUploadSets)}, MaxUploadId)

NextUpload ==
    \/ UploadAny \/ clearUploadedFiles
    \/ ProcessStart \/ PositionTextureLoaded \/ NormalTextureLoaded \/ RemapInfoLoaded
    \/ LoadTriggerEffects \/ GltfSettled

SpecUpload == Init /\ [][NextUpload]_vars

\* React runs a timer callback, a loader callback and a pending effect once
\* it is due; nothing obliges the user to upload or to clear.
SpecUploadFair ==
    /\ SpecUpload
    /\ WF_vars(ProcessStart) /\ WF_vars(PositionTextureLoaded)
    /\ WF_vars(NormalTextureLoaded) /\ WF_vars(RemapInfoLoaded)
    /\ WF_vars(LoadTriggerEffects) /\ WF_vars(GltfSettled)

\* ------------------------------------------- claims on uploads and loads
\* C21: the position texture, the normal texture and the VATParams applied
\* to a newly created material all originate from the same upload set, also
\* when a second upload arrives while the first is still being processed.
C21_MaterialFromOneUpload ==
    \A m \in scene :
        /\ m.material.vat_position_texture.v.tag = m.props.vatParams.v.tag
        /\ m.material.vat_normal_texture.some =>
              m.material.vat_normal_texture.v.tag = m.props.vatParams.v.tag

\* C23: whenever processMultiFileUpload has set shouldLoadModelFromMultiFile,
\* the flag is eventually reset to false, for every interleaving of uploads
\* and of clearUploadedFiles with the processing in flight.
C23_TriggerEventuallyReset ==
    shouldLoadModelFromMultiFile ~> ~shouldLoadModelFromMultiFile

\* C24: the loadModel call an automatic processing starts on completing is
\* given the model file of that same upload.
C24_LoadOfSameUpload ==
    \A l \in loads : l.modelFile.tag = l.vatParams.v.tag

\* C25: after any sequence of model loads the scene contains at most one VAT
\* model and it is the one modelRef points to; every earlier model has been
\* removed.
C25_OneModelInScene ==
    /\ Cardinality(scene) <= 1
    /\ \A m \in scene : m.id = modelRef

\* the upload set k has a normal texture
HasNormalTexture(k) == classifyFiles(AllUploadSets[k]).normalTexture.some

\* C26: a material created for an asset loaded from an upload set without a
\* normal texture has no vat_normal_texture: never the normal texture of
\* another asset.
C26_NoStaleNormalTexture ==
    \A m \in scene :
        ( /\ m.props.modelFile.tag = m.props.vatParams.v.tag
          /\ m.props.vatTexture.v.tag = m.props.vatParams.v.tag
          /\ ~HasNormalTexture(m.props.vatParams.v.tag) ) =>
            m.material.vat_normal_texture = None

\* a loader of the upload set k fails after its position texture has loaded
FailsPartWay(k) ==
    LET c == classifyFiles(AllUploadSets[k])
    IN  /\ c.positionTexture.some /\ c.positionTexture.v.ok
        /\ c.remapInfoFile.some
        /\ \/ c.normalTexture.some /\ ~c.normalTexture.v.ok
           \/ ~c.remapInfoFile.v.ok

\* C29: once the processing of an upload that fails part-way is over, the
\* position texture the viewer holds is not the one of the failed upload: the
\* assets are as they were before it.
C29_FailedUploadLeavesAssets ==
    \A k \in 1..Len(AllUploadSets) :
        ( /\ FailsPartWay(k)
          /\ \A p \in procs : p.classified.positionTexture.v.tag # k ) =>
            ~(vatTexture.some /\ vatTexture.v.tag = k)

\* ======================================================================
\* SpecButton: the button-driven VATViewer (four file inputs and a Load Model
\* button) driving Scene
\* ======================================================================
MaxButtonId == 3

\* the files the user can pick in the four inputs
ModelFilePicks == { GlbFile(1, TRUE, TRUE, TRUE), GlbFile(2, TRUE, TRUE, FALSE) }
PositionTexturePicks == { TextureFile("exr", FALSE, 1, TRUE, Some(4)) }
NormalTexturePicks == { TextureFile("exr", TRUE, 1, TRUE, Some(4)) }
RemapInfoPicks == { JsonFile(1, TRUE, RemapInfo(Some(3), None, None, None)) }
\* e.target.files?.[0] || null
Picked(picks) == { Some(f) : f \in picks } \cup { None }

\* the VATParams of the earlier loadVATRemapInfoFromFile: no Position
ParseRemapInfoNoPosition(file, texture) ==
    LET osRemap == file.json
    IN  [ Y_resolution |-> YResolution(texture),
          FrameCount   |-> Nullish(osRemap.Frames, DefaultFrameCount),
          minValues    |-> Vec3(Nullish(Elem(osRemap.Min, 1), -1),
                                Nullish(Elem(osRemap.Min, 2), -1),
                                Nullish(Elem(osRemap.Min, 3), -1)),
          maxValues    |-> Vec3(Nullish(Elem(osRemap.Max, 1), 1),
                                Nullish(Elem(osRemap.Max, 2), 1),
                                Nullish(Elem(osRemap.Max, 3), 1)),
          tag          |-> file.tag ]

\* what no step of the button-driven viewer touches
ButtonStep ==
    /\ out' = NoOut /\ uni' = NewMaterial
    /\ UNCHANGED <<smp, compileVars, controlVars, uploadVars,
                   shouldLoadModelFromMultiFile, clock>>

\* Scene's effect on [modelFile, vatTexture, vatParams, shouldLoadModel] in a
\* commit where one of them changed: with all four set it calls loadModel,
\* which removes modelRef.current and awaits the GLTF loader (while an id up
\* to MaxButtonId is left)
SceneLoadEffect(file, texture, normalTexture, params, trigger) ==
    IF file.some /\ texture.some /\ params.some /\ trigger
    THEN /\ nextId <= MaxButtonId
         /\ loads' = loads \cup {[ id |-> nextId, modelFile |-> file.v,
                                    vatTexture |-> texture,
                                    vatNormalTexture |-> normalTexture,
                                    vatParams |-> params ]}
         /\ nextId' = nextId + 1
         /\ scene' = {m \in scene : m.id # modelRef}
         /\ modelRef' = 0
    ELSE UNCHANGED <<loads, nextId, sceneVars>>

\* the Model File input: setModelFile, then Scene's effect with the
\* shouldLoadModel of that render, then the effect that resets shouldLoadModel
SelectModelFile ==
    /\ \E f \in Picked(ModelFilePicks) :
          /\ f # modelFile
          /\ modelFile' = f
          /\ SceneLoadEffect(f, vatTexture, vatNormalTexture, vatParams, shouldLoadModel)
    /\ shouldLoadModel' = FALSE
    /\ ButtonStep
    /\ UNCHANGED <<positionTextureFile, normalTextureFile, remapInfoFile,
                   assetVars, statusVars, procs>>

\* the Position Texture File input
SelectPositionTextureFile ==
    /\ \E f \in Picked(PositionTexturePicks) :
          /\ f # positionTextureFile
          /\ positionTextureFile' = f
    /\ shouldLoadModel' = FALSE
    /\ ButtonStep
    /\ UNCHANGED <<modelFile, normalTextureFile, remapInfoFile,
                   assetVars, statusVars, procs, loads, sceneVars, nextId>>

\* the Normals Texture File input
SelectNormalTextureFile ==
    /\ \E f \in Picked(NormalTexturePicks) :
          /\ f # normalTextureFile
          /\ normalTextureFile' = f
    /\ shouldLoadModel' = FALSE
    /\ ButtonStep
    /\ UNCHANGED <<modelFile, positionTextureFile, remapInfoFile,
                   assetVars, statusVars, procs, loads, sceneVars, nextId>>

\* the Remap Info File input
SelectRemapInfoFile ==
    /\ \E f \in Picked(RemapInfoPicks) :
          /\ f # remapInfoFile
          /\ remapInfoFile' = f
    /\ shouldLoadModel' = FALSE
    /\ ButtonStep
    /\ UNCHANGED <<modelFile, positionTextureFile, normalTextureFile,
                   assetVars, statusVars, procs, loads, sceneVars, nextId>>

\* the Load Model button: handleLoadModel up to its first await
handleLoadModel ==
    /\ nextId < MaxButtonId
    /\ IF ~modelFile.some \/ ~positionTextureFile.some \/ ~remapInfoFile.some
       THEN /\ error' = Some("Please select all required files")
            /\ UNCHANGED <<loading, procs, nextId>>
       ELSE /\ loading' = TRUE
            /\ error' = None
            /\ procs' = procs \cup
                  {[ id |-> nextId,
                     classified |-> [ modelFile |-> modelFile,
                                      positionTexture |-> positionTextureFile,
                                      normalTexture |-> normalTextureFile,
                                      remapInfoFile |-> remapInfoFile ],
                     pc |-> "position", texture |-> None ]}
            /\ nextId' = nextId + 1
    /\ ButtonStep
    /\ UNCHANGED <<buttonVars, assetVars, loads, sceneVars>>

\* the catch block of handleLoadModel
LoadModelFailed(p) ==
    /\ error' = Some("Failed to load model")
    /\ loading' = FALSE
    /\ procs' = procs \ {p}

\* loadVATTextureFromFile settles in handleLoadModel; the commit of
\* setVatTexture runs Scene's effect
LoadModelPositionLoaded ==
    /\ \E p \in procs :
          /\ p.pc = "position"
          /\ LET file == p.classified.positionTexture.v
                 texture == Some(LoadedTexture(file))
             IN  IF file.ok
                 THEN /\ vatTexture' = texture
                      /\ procs' = StepTo(p, IF p.classified.normalTexture.some
                                            THEN "normal" ELSE "remap", texture)
                      /\ SceneLoadEffect(modelFile, texture, vatNormalTexture, vatParams,
                                         shouldLoadModel)
                      /\ UNCHANGED statusVars
                 ELSE /\ LoadModelFailed(p)
                      /\ UNCHANGED <<vatTexture, loads, nextId, sceneVars>>
    /\ ButtonStep
    /\ UNCHANGED <<buttonVars, vatNormalTexture, vatParams>>

\* loadVATNormalTextureFromFile settles in handleLoadModel
LoadModelNormalLoaded ==
    /\ \E p \in procs :
          /\ p.pc = "normal"
          /\ LET file == p.classified.normalTexture.v
             IN  IF file.ok
                 THEN /\ vatNormalTexture' = Some(LoadedTexture(file))
                      /\ procs' = StepTo(p, "remap", p.texture)
                      /\ UNCHANGED statusVars
                 ELSE /\ LoadModelFailed(p)
                      /\ UNCHANGED vatNormalTexture
    /\ ButtonStep
    /\ UNCHANGED <<buttonVars, vatTexture, vatParams, loads, sceneVars, nextId>>

\* loadVATRemapInfoFromFile settles in handleLoadModel: setVatParams,
\* setShouldLoadModel(true) and setLoading(false) are committed together and
\* Scene's effect runs
LoadModelRemapLoaded ==
    /\ \E p \in procs :
          /\ p.pc = "remap"
          /\ LET file == p.classified.remapInfoFile.v
                 params == Some(ParseRemapInfoNoPosition(file, p.texture))
             IN  IF file.ok
                 THEN /\ vatParams' = params
                      /\ shouldLoadModel' = TRUE
                      /\ loading' = FALSE
                      /\ procs' = procs \ {p}
                      /\ SceneLoadEffect(modelFile, vatTexture, vatNormalTexture, params, TRUE)
                      /\ UNCHANGED error
                 ELSE /\ LoadModelFailed(p)
                      /\ UNCHANGED <<vatParams, shouldLoadModel, loads, nextId, sceneVars>>
    /\ ButtonStep
    /\ UNCHANGED <<fileVars, vatTexture, vatNormalTexture>>

NextButton ==
    \/ SelectModelFile \/ SelectPositionTextureFile
    \/ SelectNormalTextureFile \/ SelectRemapInfoFile
    \/ handleLoadModel
    \/ LoadModelPositionLoaded \/ LoadModelNormalLoaded \/ LoadModelRemapLoaded
    \/ GltfSettled

SpecButton == Init /\ [][NextButton]_vars

\* --------------------------------------- claims on the button-driven viewer
\* C22: a change of a selected file leaves shouldLoadModel false and starts
\* no model load: none starts until the Load Model button is pressed again.
C22_NoLoadOnFileChange ==
    [][ fileVars' # fileVars => (shouldLoadModel' = FALSE /\ loads' = loads) ]_vars

\* ======================================================================
\* SpecCompile: materials are constructed and their programs compiled
\* ======================================================================
MaxMaterials == 3
MaxCompiles == 2

\* ReplaceFirst with the replacement put in front of the pattern, which stays
ReplaceFirst_KeepPattern(text, pattern, replacement) ==
    LET hits == {i \in 1..Len(text) : text[i] = pattern}
    IN  IF hits = {} THEN text
        ELSE LET i == CHOOSE h \in hits : \A g \in hits : h <= g
             IN  SubSeq(text, 1, i - 1) \o replacement \o SubSeq(text, i, Len(text))

\* text.replace(pattern, replacement) with a string pattern: the first
\* occurrence only
ReplaceFirst(text, pattern, replacement) ==
    LET hits == {i \in 1..Len(text) : text[i] = pattern}
    IN  IF hits = {} THEN text
        ELSE LET i == CHOOSE h \in hits : \A g \in hits : h <= g
             IN  SubSeq(text, 1, i - 1) \o replacement \o SubSeq(text, i + 1, Len(text))

Contains(text, token) == \E i \in 1..Len(text) : text[i] = token

\* the shader three.js hands to onBeforeCompile for a standard material
StockShader ==
    [ vertexShader   |-> << "#include <beginnormal_vertex>", "#include <begin_vertex>",
                            "#include <project_vertex>" >>,
      fragmentShader |-> << "#include <normal_fragment_begin>",
                            "#include <lights_fragment_begin>" >>,
      uniforms       |-> [vat_normal_texture |-> None, custom |-> FALSE] ]

\* this.shaderAdditions
shaderAdditions ==
    [ vertexUniforms    |-> << "uniform sampler2D vat_normal_texture" >>,
      attributes        |-> << "attribute vec2 uv1" >>,
      vertexVaryings    |-> << "varying vec3 v_vat_normal" >>,
      vertexVatPosition |-> << "frame selector",
                               "texture(vat_position_texture)",
                               "transformed += object_space_position",
                               "texture(vat_normal_texture)",
                               "v_vat_normal = normalize(mix(VAT_normal, VAT_normal_next, blend) * normalMatrix)" >>,
      fragmentVaryings  |-> << "varying vec3 v_vat_normal" >>,
      fragmentMain      |-> << "normal = normalize(v_vat_normal)",
                               "nonPerturbedNormal = normal" >> ]

\* MeshStandardOpenVATMaterial.onBeforeCompile(shader): the chunk table and
\* the shader it leaves behind
onBeforeCompile(material, chunk, shader) ==
    LET customBeginNormalVertex ==
            ReplaceFirst(chunk.beginnormal_vertex,
                         "vec3 objectNormal = vec3( normal )",
                         << "vec3 objectNormal = vec3( v_vat_normal )" >>)
        vertex1 == shaderAdditions.vertexUniforms \o shaderAdditions.attributes
                   \o shaderAdditions.vertexVaryings \o shader.vertexShader
        vertex2 == ReplaceFirst(vertex1, "#include <begin_vertex>",
                                << "#include <begin_vertex>" >>
                                \o shaderAdditions.vertexVatPosition)
        fragment1 == shaderAdditions.fragmentVaryings \o shader.fragmentShader
        fragment2 == ReplaceFirst(fragment1, "#include <normal_fragment_begin>",
                                  << "#include <normal_fragment_begin>" >>
                                  \o shaderAdditions.fragmentMain)
    IN  [ chunk  |-> [chunk EXCEPT !.beginnormal_vertex = customBeginNormalVertex],
          shader |-> [ vertexShader   |-> vertex2,
                       fragmentShader |-> fragment2,
                       uniforms       |-> [vat_normal_texture |-> material.vat_normal_texture,
                                           custom |-> TRUE] ] ]

\* the renderer resolves #include <beginnormal_vertex> from the chunk table
RECURSIVE ResolveIncludes(_, _)
ResolveIncludes(text, chunk) ==
    IF text = <<>> THEN <<>>
    ELSE (IF Head(text) = "#include <beginnormal_vertex>"
          THEN chunk.beginnormal_vertex ELSE << Head(text) >>)
         \o ResolveIncludes(Tail(text), chunk)

\* the renderer builds the program of a material on its first draw
CompileProgram(material, chunk) ==
    LET r == IF material.kind = "vat"
             THEN onBeforeCompile(material, chunk, StockShader)
             ELSE [chunk |-> chunk, shader |-> StockShader]
    IN  [ chunk   |-> r.chunk,
          program |-> [r.shader EXCEPT
                          !.vertexShader = ResolveIncludes(@, r.chunk)] ]

InitCompile ==
    /\ uni = NewMaterial
    /\ smp = HostSample
    /\ out = NoOut
    /\ HostIdle
    /\ CompileIdle

\* new MeshStandardOpenVATMaterial(), with or without a normal texture set on
\* it, or new THREE.MeshStandardMaterial()
Construct ==
    /\ Len(materials) < MaxMaterials
    /\ \E m \in { [kind |-> "vat", vat_normal_texture |-> None, program |-> None],
                  [kind |-> "vat", vat_normal_texture |-> Some("normals"), program |-> None],
                  [kind |-> "standard", vat_normal_texture |-> None, program |-> None] } :
          materials' = Append(materials, [kind |-> m.kind,
                                          vat_normal_texture |-> m.vat_normal_texture,
                                          program |-> m.program, compiles |-> 0])
    /\ UNCHANGED <<ShaderChunk, shaderVars, hostVars>>

\* the first draw of a material: its program is compiled
CompileMaterial ==
    /\ \E i \in 1..Len(materials) :
          /\ ~materials[i].program.some
          /\ LET r == CompileProgram(materials[i], ShaderChunk)
             IN  /\ ShaderChunk' = r.chunk
                 /\ materials' = [materials EXCEPT ![i].program = Some(r.program),
                                                   ![i].compiles = 1]
    /\ UNCHANGED <<shaderVars, hostVars>>

\* the renderer builds the program of a material again (its needsUpdate was
\* set, or the lights of the scene changed): onBeforeCompile is called once
\* more, with a fresh shader object
RecompileMaterial ==
    /\ \E i \in 1..Len(materials) :
          /\ materials[i].program.some
          /\ materials[i].compiles < MaxCompiles
          /\ LET r == CompileProgram(materials[i], ShaderChunk)
             IN  /\ ShaderChunk' = r.chunk
                 /\ materials' = [materials EXCEPT ![i].program = Some(r.program),
                                                   ![i].compiles = @ + 1]
    /\ UNCHANGED <<shaderVars, hostVars>>

NextCompile == Construct \/ CompileMaterial \/ RecompileMaterial

SpecCompile == InitCompile /\ [][NextCompile]_vars

\* ------------------------------------------------- claims on compilation
\* C7: constructing and compiling any number of VAT materials leaves
\* THREE.ShaderChunk.beginnormal_vertex as it was before the first call, and
\* materials compiled later get the stock chunk.
C7_ShaderChunkUnchanged ==
    /\ ShaderChunk = StockShaderChunk
    /\ \A i \in 1..Len(materials) :
          (materials[i].kind = "standard" /\ materials[i].program.some) =>
              ~Contains(materials[i].program.v.vertexShader,
                        "vec3 objectNormal = vec3( v_vat_normal )")

\* C8: a VAT material whose vat_normal_texture stays null gets a program that
\* does not sample the normal texture and does not override the shading normal
\* with v_vat_normal.
C8_NormalDecodingSkipped ==
    \A i \in 1..Len(materials) :
        ( /\ materials[i].kind = "vat"
          /\ ~materials[i].vat_normal_texture.some
          /\ materials[i].program.some ) =>
            /\ ~Contains(materials[i].program.v.vertexShader, "texture(vat_normal_texture)")
            /\ ~Contains(materials[i].program.v.fragmentShader,
                         "normal = normalize(v_vat_normal)")

\* THREE.ShaderChunk.beginnormal_vertex once its first statement reads
\* v_vat_normal
CustomBeginNormalVertex ==
    << "vec3 objectNormal = vec3( v_vat_normal )", ";", "objectTangent" >>
\* the places of a token in a shader text
Places(text, token) == {i \in 1..Len(text) : text[i] = token}
\* onBeforeCompile has been called for material i
Compiled(i) == materials[i].kind = "vat" /\ materials[i].program.some

\* C28: onBeforeCompile is idempotent on the global chunk: from the first
\* call on THREE.ShaderChunk.beginnormal_vertex is the stock chunk with its
\* first statement replaced, however many calls follow on the same or other
\* materials, and each compiled vertex shader holds the injected vertex code
\* exactly once, immediately after its first '#include <begin_vertex>'.
C28_CompileIdempotent ==
    /\ ShaderChunk.beginnormal_vertex =
          IF \E i \in 1..Len(materials) : Compiled(i)
          THEN CustomBeginNormalVertex ELSE StockBeginNormalVertex
    /\ \A i \in 1..Len(materials) :
          Compiled(i) =>
              LET text == materials[i].program.v.vertexShader
                  incl == Places(text, "#include <begin_vertex>")
                  first == CHOOSE k \in incl : \A j \in incl : k <= j
                  code == shaderAdditions.vertexVatPosition
              IN  /\ incl # {}
                  /\ SubSeq(text, first + 1, first + Len(code)) = code
                  /\ \A t \in 1..Len(code) : Cardinality(Places(text, code[t])) = 1

\* C28 witness: two VAT materials compiled, one of them twice
C28_Witness ==
    /\ ShaderChunk.beginnormal_vertex = CustomBeginNormalVertex
    /\ \E i, j \in 1..Len(materials) :
          /\ i # j /\ Compiled(i) /\ Compiled(j)
          /\ materials[i].compiles = 2 /\ materials[j].compiles = 1

\* ======================================================================
\* SpecParse: one processMultiFileUpload call about to read its remap info
\* ======================================================================
\* a Min or Max array: missing, or with elements missing
ArrayChoices ==
    { None,
      Some(<< Some(0), None, Some(-2) >>),
      Some(<< None, Some(5), Some(1) >> ) }
\* the content of a remap-info file
RemapInfoChoices ==
    { NoRemapInfo } \cup
    { RemapInfo(fr, lo, hi, pos) :
        fr \in {None, Some(0), Some(3)}, lo \in ArrayChoices, hi \in ArrayChoices,
        pos \in {None, Some(<< 1, 2, 3 >>)} }
\* the texture argument: none, a texture without an image, a loaded texture
TextureChoices ==
    { None, Some([tag |-> 1, height |-> None]), Some([tag |-> 1, height |-> Some(4)]) }

\* processMultiFileUpload has loaded the position texture and awaits
\* loadVATRemapInfoFromFile
InitParse ==
    /\ \E j \in RemapInfoChoices, tx \in TextureChoices :
          LET files == << GlbFile(1, TRUE, TRUE, TRUE),
                          TextureFile("exr", FALSE, 1, TRUE, Some(4)),
                          JsonFile(1, TRUE, j) >>
              classified == classifyFiles(files)
          IN  /\ uploadedFiles = files
              /\ classifiedFiles = Some(classified)
              /\ fileValidation = Some(validateFiles(classified))
              /\ procs = {[id |-> 1, classified |-> classified, pc |-> "remap",
                           texture |-> tx]}
              /\ vatTexture = tx
    /\ isAnimated = TRUE /\ currentFrame = 0 /\ speed = DefaultSpeed
    /\ vatNormalTexture = None /\ vatParams = None
    /\ loading = TRUE /\ error = None
    /\ shouldLoadModelFromMultiFile = FALSE
    /\ loads = {} /\ scene = {} /\ modelRef = 0
    /\ clock = 0 /\ nextId = 2
    /\ uni = NewMaterial /\ smp = HostSample /\ out = NoOut
    /\ CompileIdle
    /\ ButtonIdle

NextParse == RemapInfoLoaded

SpecParse == InitParse /\ [][NextParse]_vars

\* ----------------------------------------------------- claims on parsing
\* the remap info of the file the call reads
ParsedJson == uploadedFiles[3].json
\* the element i of a Min or Max array when given, else d
Given(arr, i, d) == IF arr.some /\ arr.v[i].some THEN arr.v[i].v ELSE d

\* C14: parsing remap metadata yields FrameCount = Frames or 60, each min
\* component = Min[i] or -1, each max component = Max[i] or 1, and
\* Position = the given vector or null, for every combination of present and
\* missing fields.
C14_RemapDefaults ==
    vatParams.some =>
        LET j == ParsedJson
            v == vatParams.v
        IN  /\ v.FrameCount = IF j.Frames.some THEN j.Frames.v ELSE 60
            /\ v.minValues = Vec3(Given(j.Min, 1, -1), Given(j.Min, 2, -1), Given(j.Min, 3, -1))
            /\ v.maxValues = Vec3(Given(j.Max, 1, 1), Given(j.Max, 2, 1), Given(j.Max, 3, 1))
            /\ v.Position = IF j.Position.some
                            THEN Some(Vec3(j.Position.v[1], j.Position.v[2], j.Position.v[3]))
                            ELSE None

\* C14 witness: Frames given as 0, a Min array with a 0 and a missing element,
\* Max and Position missing
C14_Witness ==
    /\ vatParams.some
    /\ ParsedJson.Frames = Some(0)
    /\ ParsedJson.Min = Some(<< Some(0), None, Some(-2) >>)
    /\ ParsedJson.Max = None /\ ParsedJson.Position = None
    /\ vatParams.v.FrameCount = 0
    /\ vatParams.v.minValues = Vec3(0, -1, -2)
    /\ vatParams.v.maxValues = Vec3(1, 1, 1)
    /\ vatParams.v.Position = None

\* ======================================================================
\* SpecClassify: one file list dropped on the input, about to be classified
\* ======================================================================
MaxFiles == 3
StemChoices == { << "mesh" >>, << "mesh", "_vnrm" >>, << "mesh", "_VNRM" >> }
ExtChoices ==
    { << ".exr" >>, << ".EXR" >>, << ".png" >>, << ".glb" >>, << ".json" >>, <<>>,
      << ".png", ".exr" >> }
NameChoices == { st \o ex : st \in StemChoices, ex \in ExtChoices }
\* event.target.files: one to MaxFiles files
FileListChoices ==
    UNION { [1..n -> { File(nm, 1, TRUE, TRUE, TRUE, Some(4), NoRemapInfo) : nm \in NameChoices }]
            : n \in 1..MaxFiles }

\* handleFileInputChange has been handed the list and calls
\* handleMultiFileUpload
InitClassify ==
    /\ uploadedFiles \in FileListChoices
    /\ classifiedFiles = None /\ fileValidation = None
    /\ isAnimated = TRUE /\ currentFrame = 0 /\ speed = DefaultSpeed
    /\ vatTexture = None /\ vatNormalTexture = None /\ vatParams = None
    /\ loading = FALSE /\ error = None
    /\ shouldLoadModelFromMultiFile = FALSE
    /\ procs = {} /\ loads = {} /\ scene = {} /\ modelRef = 0
    /\ clock = 0 /\ nextId = 1
    /\ uni = NewMaterial /\ smp = HostSample /\ out = NoOut
    /\ CompileIdle
    /\ ButtonIdle

\* the one call of handleMultiFileUpload for the list
NextClassify == classifiedFiles = None /\ Upload({uploadedFiles}, MaxId)

SpecClassify == InitClassify /\ [][NextClassify]_vars

\* ------------------------------------------------ claims on classification
\* the piece before the last extension of a name is "_vnrm"
NamedVnrm(name) == Len(name) >= 2 /\ name[Len(name) - 1] = "_vnrm"

\* C27: the position texture and the normal texture classifyFiles returns are
\* different files with different naming conventions, validateFiles never
\* reports the 'same naming convention' error on a classifyFiles result, and
\* isValid holds exactly when the model file, the position texture and the
\* remap info file are all present.
C27_ClassifiedTexturesDiffer ==
    classifiedFiles.some =>
        LET c == classifiedFiles.v
            v == fileValidation.v
        IN  /\ (c.positionTexture.some /\ c.normalTexture.some) =>
                  /\ c.positionTexture.v # c.normalTexture.v
                  /\ NamedVnrm(c.normalTexture.v.name)
                  /\ ~NamedVnrm(c.positionTexture.v.name)
            /\ v.errors = <<>>
            /\ v.isValid = ( /\ c.modelFile.some /\ c.positionTexture.some
                             /\ c.remapInfoFile.some )

\* C27 witness: a list whose two textures have the same extension and differ
\* only in the case of the ending, with a model and a remap info file
C27_Witness ==
    /\ classifiedFiles.some
    /\ classifiedFiles.v.positionTexture = Some(uploadedFiles[1])
    /\ uploadedFiles[1].name = << "mesh", "_VNRM", ".exr" >>
    /\ classifiedFiles.v.normalTexture.some
    /\ classifiedFiles.v.normalTexture.v.name = << "mesh", "_vnrm", ".exr" >>
    /\ fileValidation.v.isValid = FALSE
    /\ fileValidation.v.missingFiles # <<>>

\* ======================================================================
\* SpecGeometry: one Scene.loadModel call awaiting the GLTF loader
\* ======================================================================
\* the model file of the call: a mesh with or without uv and uv1, which the
\* loader accepts or rejects
ModelFileChoices ==
    { GlbFile(1, ok, uv, uv1) : ok \in BOOLEAN, uv \in BOOLEAN, uv1 \in BOOLEAN }
\* the asset props of the render that called loadModel
AssetPropsChoices ==
    { [ vatTexture |-> Some(LoadedTexture(TextureFile("exr", FALSE, 1, TRUE, h))),
        vatNormalTexture |-> n,
        vatParams |-> Some(ParseRemapInfo(JsonFile(1, TRUE, j),
                           Some(LoadedTexture(TextureFile("exr", FALSE, 1, TRUE, h))))) ]
      : h \in {None, Some(4)},
        n \in {None, Some(LoadedTexture(TextureFile("exr", TRUE, 1, TRUE, Some(4))))},
        j \in {NoRemapInfo, RemapInfo(Some(3), None, None, None)} }

InitGeometry ==
    /\ \E f \in ModelFileChoices, a \in AssetPropsChoices :
          /\ vatTexture = a.vatTexture
          /\ vatNormalTexture = a.vatNormalTexture
          /\ vatParams = a.vatParams
          /\ loads = {[ id |-> 1, modelFile |-> f, vatTexture |-> a.vatTexture,
                        vatNormalTexture |-> a.vatNormalTexture,
                        vatParams |-> a.vatParams ]}
    /\ isAnimated = TRUE /\ currentFrame = 0 /\ speed = DefaultSpeed
    /\ loading = FALSE /\ error = None
    /\ uploadedFiles = <<>> /\ classifiedFiles = None /\ fileValidation = None
    /\ shouldLoadModelFromMultiFile = FALSE
    /\ procs = {} /\ scene = {} /\ modelRef = 0
    /\ clock = 0 /\ nextId = 2
    /\ uni = NewMaterial /\ smp = HostSample /\ out = NoOut
    /\ CompileIdle
    /\ ButtonIdle

NextGeometry == GltfSettled

SpecGeometry == InitGeometry /\ [][NextGeometry]_vars

\* -------------------------------------------------- claims on geometry
\* C30: after ensureUVCoordinates both uv and uv1 are present, an attribute
\* that existed is unchanged, a missing uv1 is a copy of uv, and uv1 is never
\* derived from the vertex Z/X positions.
C30_Uv1CopiedFromUv ==
    \A m \in scene :
        /\ m.geometry.uv.some /\ m.geometry.uv1.some
        /\ m.source.uv.some => m.geometry.uv = m.source.uv
        /\ m.source.uv1.some => m.geometry.uv1 = m.source.uv1
        /\ ~m.source.uv1.some => m.geometry.uv1 = m.geometry.uv
        /\ m.geometry.uv1 # Some([data |-> "position.zx"])

\* C30 witness: a loaded mesh that had neither uv nor uv1
C30_Witness ==
    \E m \in scene :
        /\ m.kind = "gltf"
        /\ m.source.uv = None /\ m.source.uv1 = None
        /\ m.geometry.uv = Some([data |-> "position.xy"])
        /\ m.geometry.uv1 = Some([data |-> "position.xy"])

====
